---- MODULE Spec2Model ----
(***************************************************************************)
(* The place-name extraction and coordinate-collection pipeline of the     *)
(* geocoding notebook (src/02-geocoding-module.ipynb).                     *)
(*                                                                         *)
(* Two pipelines share the geocode resolver loop:                          *)
(*   CSV  : ent_df (shuffled) -> place_list -> place_list[:75]             *)
(*          -> place_coord -> scatter loop                                 *)
(*   tree : sentences -> get_placenames -> moby_places -> allcoordinates   *)
(*                                                                         *)
(* A text is a sequence of pieces (Python str concatenation is \o); a      *)
(* token is one piece, the separator of " ".join is the piece " ".         *)
(* Latitudes and longitudes are in units of 1e-4 degree.                   *)
(***************************************************************************)
EXTENDS Integers, Sequences, FiniteSets, TLC

VARIABLES
    pc,               \* the cell / loop the notebook is in
    ent_df,           \* the DataFrame rows, in iteration order
    i,                \* rows of ent_df consumed by the filter loop
    place_list,       \* names of the LOCATION rows
    api,              \* the answers the geocoding service has given, by query
    k,                \* place names consumed by the resolver loop
    place_coord,      \* collected (lng, lat) pairs of the CSV pipeline
    calls,            \* log of the geocode calls: query and answer, in call order
    stdout,           \* the printed lines
    scatter,          \* the plt.scatter calls of the plot loop
    sentences,        \* the parse tree (ne_chunk result) of each sentence
    sent_ix,          \* sentences consumed by the accumulation loop
    parsed_tree,      \* get_placenames: the argument, a sequence of child nodes
    node_ix,          \* get_placenames: child nodes consumed
    continuous_chunk, \* get_placenames: the output list
    current_chunk,    \* get_placenames: the run buffer
    closed_at,        \* history: continuous_chunk after the last non-matching node
    chunks,           \* the value the last get_placenames call returned
    moby_places,      \* the cumulative place list of the document
    allcoordinates,   \* collected (lng, lat) pairs of the tree pipeline
    faults,           \* history: the calls after whose return the try body was interrupted
    kept,             \* history: the rows whose name the filter loop appended
    returned,         \* history: the values the get_placenames calls returned
    pass,             \* 1, or 2 when the cells are being run a second time
    prev              \* history: the results of the first pass

csvVars == <<ent_df, i, place_list, place_coord, scatter>>

treeVars ==
    <<sentences, sent_ix, parsed_tree, node_ix, continuous_chunk, current_chunk, closed_at,
      chunks, moby_places, allcoordinates>>

auxVars == <<faults, kept, returned, pass, prev>>

vars == <<pc, api, k, calls, stdout, csvVars, treeVars, auxVars>>

----
\* Bounds of the model.

\* rows of a short DataFrame
MaxRows == 3
\* rows of a long DataFrame beyond PlaceLimit
MaxExtra == 1
\* child nodes of a parse tree, of any kind
MaxNodes == 5
\* child nodes of a parse tree made of CoreNodes only
MaxCoreNodes == 6
\* child nodes of each tree of a two-sentence document
MaxPairNodes == 2

----
\* Data

Paris == <<"Paris">>
Springfield == <<"Springfield">>
Qwxyzstan123 == <<"Qwxyzstan123">>

EntityNames == {Paris, Springfield, Qwxyzstan123}

EntityTypes == {"LOCATION", "ORGANIZATION"}

\* a row of ent_df: the columns read by the filter loop
Rows == [entity : EntityNames, type : EntityTypes]

LocationRows == {r \in Rows : r.type = "LOCATION"}

\* the slice bound of place_list[:75]
PlaceLimit == 75

RECURSIVE Cycle(_, _)
\* the frame of n rows that repeats the rows of pat
Cycle(pat, n) ==
    IF n = 0 THEN <<>>
    ELSE Append(Cycle(pat, n - 1), pat[((n - 1) % Len(pat)) + 1])

SeqsUpTo(S, n) == UNION {[1..m -> S] : m \in 0..n}

ShortFrames == SeqsUpTo(Rows, MaxRows)

LongFrames ==
    {Cycle(pat, PlaceLimit + e) :
        pat \in SeqsUpTo(LocationRows, 2) \ {<<>>}, e \in 0..MaxExtra}

\* the DataFrames read_csv may deliver
Frames == ShortFrames \cup LongFrames

CountOf(f, r) == Cardinality({n \in 1..Len(f) : f[n] = r})

\* float('nan'): the value read_csv gives a cell the file leaves out or blank
\* (it compares unequal to every type tag)
NaN == "NaN"

\* the rows read_csv yields from records that may lack the type field
ReadRows == [entity : EntityNames, type : EntityTypes \cup {NaN}]

\* the columns a CSV file may hold of the two the notebook reads
ColumnSets == {{"entity", "type"}, {"entity"}, {"type"}}

\* a row of a frame read from a file with the columns cols
Project(r, cols) == [c \in cols |-> r[c]]

\* short frames read from files with either or both columns, a record of
\* which may lack the type field
ColumnFrames ==
    UNION {{[m \in 1..Len(f) |-> Project(f[m], cols)] : f \in SeqsUpTo(ReadRows, MaxRows)} :
               cols \in ColumnSets}

Reorderings(n) == {p \in [1..n -> 1..n] : \A a, b \in 1..n : p[a] = p[b] => a = b}

\* sklearn.utils.shuffle: any reordering of the rows; of a short frame every
\* permutation, of a long frame the permutations that are in LongFrames
Shuffles(df) ==
    IF Len(df) <= MaxRows
    THEN {[m \in 1..Len(df) |-> df[p[m]]] : p \in Reorderings(Len(df))}
    ELSE {f \in LongFrames : Len(f) = Len(df) /\ \A r \in Rows : CountOf(f, r) = CountOf(df, r)}

\* geocoder answers: a Location unpacks as (address, (latitude, longitude))
Locations ==
    { [address |-> <<"Paris, Ile-de-France, France">>, latitude |-> 488566, longitude |-> 23522],
      [address |-> <<"Sydney, New South Wales, Australia">>, latitude |-> -338688, longitude |-> 1512093] }

\* geocode returned None: no match
NoneResult == [none |-> TRUE]

\* geocode raised (GeocoderServiceError, timeout, ...)
GeocoderError == [raised |-> "GeocoderServiceError"]

Answers == Locations \cup {NoneResult, GeocoderError}

\* nothing is raised
NoFault == [raised |-> "nothing"]

\* the kernel is interrupted: KeyboardInterrupt is raised in the running cell
KeyboardInterrupt == [raised |-> "KeyboardInterrupt"]

\* child nodes of an nltk parse tree: a (token, pos) tuple, or a labelled
\* sub-tree whose leaves are (token, pos) tuples
Leaf(token, pos) == [tree |-> FALSE, token |-> token, pos |-> pos]

Tree(label, leaves) == [tree |-> TRUE, label |-> label, leaves |-> leaves]

CoreNodes ==
    { Leaf("in", "IN"),
      Tree("GPE", << <<"New", "NNP">> >>),
      Tree("GPE", << <<"York", "NNP">> >>) }

Nodes ==
    CoreNodes \cup
    { Tree("PERSON", << <<"Ishmael", "NNP">> >>),
      Tree("ORGANIZATION", << <<"New", "NNP">>, <<"York", "NNP">> >>) }

Trees == SeqsUpTo(Nodes, MaxNodes) \cup SeqsUpTo(CoreNodes, MaxCoreNodes)

PairTrees == SeqsUpTo(CoreNodes, MaxPairNodes)

\* the documents: no sentence, one sentence, or two short ones
Documents ==
    {<<>>} \cup {<<t>> : t \in Trees} \cup {<<t, u>> : t, u \in PairTrees}

----
\* mutant: the slice keeps one element too many
SliceToOffByOne(seq, n) == SubSeq(seq, 1, IF Len(seq) < n + 1 THEN Len(seq) ELSE n + 1)

\* Python slice seq[:n]
SliceTo(seq, n) == SubSeq(seq, 1, IF Len(seq) < n THEN Len(seq) ELSE n)

\* f"Found {n} locations."
FoundLine(n) == <<"Found ", ToString(n), " locations.">>

\* mutant: the diagnostic does not name the place
CouldNotFindLineNoName(placename) == <<"Could not find: ">>

\* 'Could not find: ' + placename
CouldNotFindLine(placename) == <<"Could not find: ">> \o placename

\* fullname, (lat, lng) = <answer>: unpacking succeeds on a Location only;
\* None raises TypeError
Unpacks(answer) == answer \in Locations

\* mutant: `except TypeError:` catches the failed unpacking of None only
CaughtTypeErrorOnly(exc) == exc = NoneResult

\* the bare `except:` clause catches every exception
Caught(exc) == TRUE

\* mutant: the pair is kept in the geocoder's (lat, lng) order
CoordinateLatLng(answer) == <<answer.latitude, answer.longitude>>

\* the coordinate appended on success: (lng, lat)
Coordinate(answer) == <<answer.longitude, answer.latitude>>

\* mutant: a coordinate already collected is not collected again
CollectNoDuplicates(coords, c) ==
    IF \E m \in 1..Len(coords) : coords[m] = c THEN coords ELSE Append(coords, c)

\* <list>.append((lng, lat))
Collect(coords, c) == Append(coords, c)

\* the answer of the service to a query: the one it gave before, if any
AnswersTo(query) ==
    IF query \in DOMAIN api THEN {api[query]} ELSE Answers

Remember(query, answer) ==
    [q \in DOMAIN api \cup {query} |-> IF q = query THEN answer ELSE api[q]]

\* the results kept of a pass over the cells
NoResults == [place_list |-> <<>>, place_coord |-> <<>>, stdout |-> <<>>]

----
\* CSV pipeline

\* the state before the first cell of the CSV pipeline has run
CsvStart ==
    /\ pc = "read_csv"
    /\ i = 0
    /\ place_list = <<>>
    /\ api = <<>>
    /\ k = 0
    /\ place_coord = <<>>
    /\ calls = <<>>
    /\ stdout = <<>>
    /\ scatter = <<>>
    /\ sentences = <<>>
    /\ sent_ix = 0
    /\ parsed_tree = <<>>
    /\ node_ix = 0
    /\ continuous_chunk = <<>>
    /\ current_chunk = <<>>
    /\ closed_at = <<>>
    /\ chunks = <<>>
    /\ moby_places = <<>>
    /\ allcoordinates = <<>>
    /\ faults = <<>>
    /\ kept = <<>>
    /\ returned = <<>>
    /\ pass = 1
    /\ prev = NoResults

\* ent_df = pd.read_csv(...) of a file with the columns entity and type
InitCsv ==
    /\ ent_df \in Frames
    /\ CsvStart

\* ent_df = pd.read_csv(...) of a file that may lack one of the columns
InitColumns ==
    /\ ent_df \in ColumnFrames
    /\ CsvStart

\* ent_df = shuffle(ent_df); then place_list = []
Shuffle ==
    /\ pc = "read_csv"
    /\ ent_df' \in Shuffles(ent_df)
    /\ place_list' = <<>>
    /\ i' = 0
    /\ kept' = <<>>
    /\ pc' = "filter"
    /\ UNCHANGED <<api, k, place_coord, calls, stdout, scatter, treeVars, faults, returned, pass,
                   prev>>

\* mutant: every row is taken
AcceptedAny(ner_type) == TRUE

\* ner_type == 'LOCATION'
Accepted(ner_type) == ner_type = "LOCATION"

\* mutant: the name is put at the front of the list
PrependPlace(list, name) == <<name>> \o list

\* place_list.append(name)
AppendPlace(list, name) == Append(list, name)

\* r['entity'], r['type']: a column the frame does not have raises KeyError;
\* a NaN cell is read like any other
RaisesKeyError(r) == "entity" \notin DOMAIN r \/ "type" \notin DOMAIN r

\* one iteration of `for i, r in ent_df.iterrows()`
FilterStep ==
    /\ pc = "filter"
    /\ i < Len(ent_df)
    /\ LET r == ent_df[i + 1]
       IN  IF RaisesKeyError(r)
           THEN /\ pc' = "raised"
                /\ UNCHANGED <<i, place_list, kept>>
           ELSE LET name == r.entity
                    ner_type == r.type
                IN  /\ IF Accepted(ner_type)
                       THEN /\ place_list' = AppendPlace(place_list, name)
                            /\ kept' = Append(kept, r)
                       ELSE UNCHANGED <<place_list, kept>>
                    /\ i' = i + 1
                    /\ UNCHANGED pc
    /\ UNCHANGED <<ent_df, api, k, place_coord, calls, stdout, scatter, treeVars, faults,
                   returned, pass, prev>>

\* the loop is exhausted: print(f'Found {len(place_list)} locations.');
\* the next cells create the geocoder client (the service keeps its answers)
\* and set place_coord = []
FilterDone ==
    /\ pc = "filter"
    /\ i = Len(ent_df)
    /\ stdout' = Append(stdout, FoundLine(Len(place_list)))
    /\ place_coord' = <<>>
    /\ k' = 0
    /\ pc' = "resolve"
    /\ UNCHANGED <<ent_df, i, place_list, api, calls, scatter, treeVars, auxVars>>

\* mutant: a failed call is repeated until the name resolves
ResolveBodyRetry(list, coords, verbose, answer, fault) ==
    LET placename == list[k + 1]
    IN  /\ calls' = Append(calls, [query |-> placename, answer |-> answer])
        /\ api' = api
        /\ faults' = faults
        /\ pc' = pc
        /\ IF Unpacks(answer)
           THEN /\ coords' = Collect(coords, Coordinate(answer))
                /\ k' = k + 1
                /\ stdout' = stdout
           ELSE /\ stdout' = Append(stdout, CouldNotFindLine(placename))
                /\ k' = k
                /\ coords' = coords

\* the body of `for placename in <list>`: try / except around one geocode call
\* (verbose: the loop prints name and coordinates on success; fault: what is
\* raised in the try body after the geocode call has returned a Location)
ResolveBody(list, coords, verbose, answer, fault) ==
    LET placename == list[k + 1]
        exc == IF Unpacks(answer) THEN fault ELSE answer
    IN  /\ calls' = Append(calls, [query |-> placename, answer |-> answer])
        /\ api' = Remember(placename, answer)
        /\ k' = k + 1
        /\ faults' = IF Unpacks(answer) /\ fault # NoFault
                      THEN Append(faults, Len(calls) + 1)
                      ELSE faults
        /\ IF exc = NoFault
           THEN /\ coords' = Collect(coords, Coordinate(answer))
                /\ stdout' =
                       IF verbose
                       THEN stdout \o << placename \o <<":  ">> \o answer.address,
                                         <<ToString(answer.latitude), " ", ToString(answer.longitude)>> >>
                       ELSE stdout
                /\ UNCHANGED pc
           ELSE IF Caught(exc)
           THEN /\ stdout' = Append(stdout, CouldNotFindLine(placename))
                /\ UNCHANGED <<coords, pc>>
           ELSE /\ pc' = "raised"
                /\ UNCHANGED <<coords, stdout>>

\* mutant: the whole list is iterated
PlaceSliceAll == place_list

\* mutant: the list is cut after two names
PlaceSliceTwo == SliceTo(place_list, 2)

\* the list the CSV resolver loop iterates over: place_list[:75]
PlaceSlice == SliceTo(place_list, PlaceLimit)

\* one iteration of `for placename in place_list[:75]`
ResolveStep ==
    /\ pc = "resolve"
    /\ k < Len(PlaceSlice)
    /\ \E answer \in AnswersTo(PlaceSlice[k + 1]) :
           ResolveBody(PlaceSlice, place_coord, FALSE, answer, NoFault)
    /\ UNCHANGED <<ent_df, i, place_list, scatter, treeVars, kept, returned, pass, prev>>

\* the loop is exhausted: print(f"Found {len(place_coord)} locations.")
ResolveDone ==
    /\ pc = "resolve"
    /\ k = Len(PlaceSlice)
    /\ stdout' = Append(stdout, FoundLine(Len(place_coord)))
    /\ scatter' = <<>>
    /\ pc' = "plot"
    /\ UNCHANGED <<ent_df, i, place_list, api, k, place_coord, calls, treeVars, auxVars>>

\* one iteration of `for lon, lat in place_coord: plt.scatter(lon, lat, ...)`
PlotStep ==
    /\ pc = "plot"
    /\ Len(scatter) < Len(place_coord)
    /\ LET lon == place_coord[Len(scatter) + 1][1]
           lat == place_coord[Len(scatter) + 1][2]
       IN  scatter' = Append(scatter, [x |-> lon, y |-> lat])
    /\ UNCHANGED <<pc, ent_df, i, place_list, api, k, place_coord, calls, stdout, treeVars, auxVars>>

\* plt.show()
PlotDone ==
    /\ pc = "plot"
    /\ Len(scatter) = Len(place_coord)
    /\ pc' = "done"
    /\ UNCHANGED <<ent_df, i, place_list, api, k, place_coord, calls, stdout, scatter, treeVars, auxVars>>

NextCsv ==
    \/ Shuffle
    \/ FilterStep
    \/ FilterDone
    \/ ResolveStep
    \/ ResolveDone
    \/ PlotStep
    \/ PlotDone

SpecCsv == InitCsv /\ [][NextCsv]_vars

\* the cells from shuffle(ent_df) on are run a second time, on the same rows
\* and against the same geocoding service; the outputs of the first pass are
\* replaced
RunAgain ==
    /\ pc = "done"
    /\ pass = 1
    /\ prev' = [place_list |-> place_list, place_coord |-> place_coord, stdout |-> stdout]
    /\ pass' = 2
    /\ stdout' = <<>>
    /\ calls' = <<>>
    /\ pc' = "read_csv"
    /\ UNCHANGED <<api, k, csvVars, treeVars, faults, kept, returned>>

\* the CSV pipeline on a file that may lack a column
SpecColumns == InitColumns /\ [][NextCsv]_vars

\* the filter cells are run a second time, on the rows the first pass kept
Refilter ==
    /\ pc = "resolve"
    /\ k = 0
    /\ pass = 1
    /\ prev' = [place_list |-> place_list, place_coord |-> place_coord, stdout |-> stdout]
    /\ pass' = 2
    /\ ent_df' = kept
    /\ place_list' = <<>>
    /\ i' = 0
    /\ kept' = <<>>
    /\ stdout' = <<>>
    /\ pc' = "filter"
    /\ UNCHANGED <<api, k, calls, place_coord, scatter, treeVars, faults, returned>>

NextRefilter ==
    \/ Shuffle
    \/ FilterStep
    \/ FilterDone
    \/ Refilter

\* the filter, then the filter again on its survivors
SpecRefilter == InitCsv /\ [][NextRefilter]_vars

NextReorder == NextCsv \/ RunAgain

\* two passes over the same rows, each in an ordering of its own
SpecReorder == InitCsv /\ [][NextReorder]_vars

----
\* Tree pipeline

RECURSIVE Join(_)
\* " ".join(texts)
Join(texts) ==
    IF Len(texts) = 0 THEN <<>>
    ELSE IF Len(texts) = 1 THEN texts[1]
    ELSE Join(SubSeq(texts, 1, Len(texts) - 1)) \o <<" ">> \o texts[Len(texts)]

RECURSIVE ReprList(_)
\* the items of str(list): 'a', 'b'
ReprList(texts) ==
    IF Len(texts) = 0 THEN <<>>
    ELSE IF Len(texts) = 1 THEN <<"'">> \o texts[1] \o <<"'">>
    ELSE ReprList(SubSeq(texts, 1, Len(texts) - 1))
             \o <<", ", "'">> \o texts[Len(texts)] \o <<"'">>

\* [token for token, pos in node.leaves()]
Tokens(node) == [m \in 1..Len(node.leaves) |-> <<node.leaves[m][1]>>]

\* type(node) == nltk.Tree and (node.label() == "GPE" or node.label() == 'ORGANIZATION')
Matches(node) == node.tree /\ (node.label = "GPE" \/ node.label = "ORGANIZATION")

\* mutant: the membership test is dropped
NotInAlways(named_entity, list) == TRUE

\* named_entity not in continuous_chunk
NotIn(named_entity, list) == \A m \in 1..Len(list) : list[m] # named_entity

\* mutant: a run still open at the end is flushed
ReturnValueFlushed ==
    IF current_chunk # <<>>
    THEN Append(continuous_chunk, Join(current_chunk))
    ELSE continuous_chunk

\* return continuous_chunk
ReturnValue == continuous_chunk

InitTree ==
    /\ pc = "sentences"
    /\ sentences \in Documents
    /\ sent_ix = 0
    /\ parsed_tree = <<>>
    /\ node_ix = 0
    /\ continuous_chunk = <<>>
    /\ current_chunk = <<>>
    /\ closed_at = <<>>
    /\ chunks = <<>>
    /\ moby_places = <<>>
    /\ allcoordinates = <<>>
    /\ api = <<>>
    /\ k = 0
    /\ calls = <<>>
    /\ stdout = <<>>
    /\ ent_df = <<>>
    /\ i = 0
    /\ place_list = <<>>
    /\ place_coord = <<>>
    /\ scatter = <<>>
    /\ faults = <<>>
    /\ kept = <<>>
    /\ returned = <<>>
    /\ pass = 1
    /\ prev = NoResults

\* `for s in sentences`: namedEnt = nltk.ne_chunk(tagged); get_placenames(namedEnt)
\* is entered: prev = None, continuous_chunk = [], current_chunk = []
CallGetPlacenames ==
    /\ pc = "sentences"
    /\ sent_ix < Len(sentences)
    /\ parsed_tree' = sentences[sent_ix + 1]
    /\ node_ix' = 0
    /\ continuous_chunk' = <<>>
    /\ current_chunk' = <<>>
    /\ closed_at' = <<>>
    /\ pc' = "get_placenames"
    /\ UNCHANGED <<api, k, calls, stdout, csvVars, auxVars, sentences, sent_ix, chunks, moby_places,
                   allcoordinates>>

\* one iteration of `for node in parsed_tree`
NodeStep ==
    /\ pc = "get_placenames"
    /\ node_ix < Len(parsed_tree)
    /\ LET node == parsed_tree[node_ix + 1]
           named_entity == Join(current_chunk)
       IN  IF Matches(node)
           THEN /\ current_chunk' = Append(current_chunk, Join(Tokens(node)))
                /\ UNCHANGED <<continuous_chunk, closed_at>>
           ELSE IF current_chunk # <<>>
           THEN /\ IF NotIn(named_entity, continuous_chunk)
                   THEN /\ continuous_chunk' = Append(continuous_chunk, named_entity)
                        /\ current_chunk' = <<>>
                   ELSE UNCHANGED <<continuous_chunk, current_chunk>>
                /\ closed_at' = continuous_chunk'
           ELSE /\ closed_at' = continuous_chunk
                /\ UNCHANGED <<continuous_chunk, current_chunk>>
    /\ node_ix' = node_ix + 1
    /\ UNCHANGED <<pc, api, k, calls, stdout, csvVars, auxVars, sentences, sent_ix, parsed_tree, chunks,
                   moby_places, allcoordinates>>

\* mutant: only the strings the list does not hold yet are added
ExtendNew(list, items) ==
    list \o SelectSeq(items, LAMBDA x : \A m \in 1..Len(list) : list[m] # x)

\* <list>.extend(items)
Extend(list, items) == list \o items

\* the loop is exhausted: return continuous_chunk; chunks = <the value>;
\* moby_places.extend(chunks)
ReturnPlacenames ==
    /\ pc = "get_placenames"
    /\ node_ix = Len(parsed_tree)
    /\ chunks' = ReturnValue
    /\ returned' = Append(returned, chunks')
    /\ moby_places' = Extend(moby_places, chunks')
    /\ sent_ix' = sent_ix + 1
    /\ pc' = "sentences"
    /\ UNCHANGED <<api, k, calls, stdout, csvVars, faults, kept, pass, prev, sentences, parsed_tree,
                   node_ix, continuous_chunk, current_chunk, closed_at, allcoordinates>>

\* the sentences are exhausted: print('\nPLACENAMES: '); print(moby_places);
\* the next cell sets allcoordinates = []
SentencesDone ==
    /\ pc = "sentences"
    /\ sent_ix = Len(sentences)
    /\ stdout' = stdout \o << <<"\n", "PLACENAMES: ">>, <<"[">> \o ReprList(moby_places) \o <<"]">> >>
    /\ allcoordinates' = <<>>
    /\ k' = 0
    /\ pc' = "resolve_moby"
    /\ UNCHANGED <<api, calls, csvVars, auxVars, sentences, sent_ix, parsed_tree, node_ix, continuous_chunk,
                   current_chunk, closed_at, chunks, moby_places>>

\* one iteration of `for placename in moby_places` (time.sleep(1) changes no state)
ResolveMobyStep ==
    /\ pc = "resolve_moby"
    /\ k < Len(moby_places)
    /\ \E answer \in AnswersTo(moby_places[k + 1]) :
           ResolveBody(moby_places, allcoordinates, TRUE, answer, NoFault)
    /\ UNCHANGED <<csvVars, kept, returned, pass, prev, sentences, sent_ix, parsed_tree, node_ix, continuous_chunk, current_chunk,
                   closed_at, chunks, moby_places>>

\* an iteration in which the kernel is interrupted after the geocode call has
\* returned a Location, during the two prints or before allcoordinates.append
ResolveMobyStepInterrupted ==
    /\ pc = "resolve_moby"
    /\ k < Len(moby_places)
    /\ \E answer \in AnswersTo(moby_places[k + 1]) \cap Locations :
           ResolveBody(moby_places, allcoordinates, TRUE, answer, KeyboardInterrupt)
    /\ UNCHANGED <<csvVars, kept, returned, pass, prev, sentences, sent_ix, parsed_tree, node_ix,
                   continuous_chunk, current_chunk, closed_at, chunks, moby_places>>

\* the loop is exhausted
ResolveMobyDone ==
    /\ pc = "resolve_moby"
    /\ k = Len(moby_places)
    /\ pc' = "done_moby"
    /\ UNCHANGED <<api, k, calls, stdout, csvVars, treeVars, auxVars>>

NextTree ==
    \/ CallGetPlacenames
    \/ NodeStep
    \/ ReturnPlacenames
    \/ SentencesDone
    \/ ResolveMobyStep
    \/ ResolveMobyDone

SpecTree == InitTree /\ [][NextTree]_vars

----
\* Either source variant

Init == InitCsv \/ InitTree

Next == NextCsv \/ NextTree

Spec == Init /\ [][Next]_vars

NextInterrupted == NextTree \/ ResolveMobyStepInterrupted

\* the tree pipeline, run by a user who may interrupt the kernel
SpecInterrupted == InitTree /\ [][NextInterrupted]_vars

\* the notebook keeps running its cells: no loop is left half-way
FairSpec == Spec /\ WF_vars(Next)

----
\* Properties

Min(a, b) == IF a < b THEN a ELSE b

\* the entity names of a sequence of rows
NamesOf(rows) == [m \in 1..Len(rows) |-> rows[m].entity]

IsLocation(r) == r.type \in {"LOCATION"}

FilterFinished == pc \in {"resolve", "plot", "done"}

\* C1: at every point of the filter loop the place list is exactly the
\* sequence of entity names of the rows consumed so far whose type is in
\* {'LOCATION'}, in iteration order; rows of another type contribute
\* nothing and the list is never longer than the input.
FilterCorrect ==
    pc \in {"filter", "resolve", "plot", "done"} =>
        /\ place_list = NamesOf(SelectSeq(SubSeq(ent_df, 1, i), IsLocation))
        /\ Len(place_list) <= Len(ent_df)
        /\ FilterFinished => i = Len(ent_df)

\* the spec's scenario: LOCATION, ORGANIZATION, LOCATION gives the two locations
FilterCorrectWitness ==
    /\ FilterFinished
    /\ ent_df = << [entity |-> Springfield, type |-> "LOCATION"],
                   [entity |-> Qwxyzstan123, type |-> "ORGANIZATION"],
                   [entity |-> Paris, type |-> "LOCATION"] >>
    /\ place_list = <<Springfield, Paris>>

\* a place name the geocoder resolves
Resolvable(name) == name \in DOMAIN api /\ api[name] \in Locations

ResolvableCount(list) == Cardinality({m \in 1..Len(list) : Resolvable(list[m])})

ResolverFinished == pc \in {"plot", "done"}

\* the 'Could not find' diagnostics printed so far, in order
Diagnostics == SelectSeq(stdout, LAMBDA line : line[1] = "Could not find: ")

\* C2 as stated: the resolver consumes the entire place list and the
\* coordinate list is as long as the number of resolvable names in it.
ResolverConsumesPlaceList ==
    ResolverFinished =>
        /\ k = Len(place_list)
        /\ \A m \in 1..Len(place_list) : place_list[m] \in DOMAIN api
        /\ Len(place_coord) = ResolvableCount(place_list)

\* C2 amended: the resolver consumes the first min(n, 75) names of the place
\* list, one call each in list order, and at the end the coordinate list is as
\* long as the number of resolvable names among those first min(n, 75).
ResolverConsumesFirst75 ==
    ResolverFinished =>
        /\ k = Min(Len(place_list), PlaceLimit)
        /\ Len(calls) = k
        /\ \A m \in 1..k : calls[m].query = place_list[m]
        /\ Len(place_coord) = ResolvableCount(SubSeq(place_list, 1, k))

\* a place list longer than 75 with resolvable and unresolvable names
ResolverConsumesFirst75Witness ==
    /\ pc = "done"
    /\ Len(place_list) > PlaceLimit
    /\ Len(place_coord) > 0
    /\ Len(place_coord) < PlaceLimit

\* C3 as stated: at the end of the run the coordinate list is not longer than
\* the place list, and the shortfall is the number of diagnostics.
ShortfallIsFailures ==
    ResolverFinished =>
        /\ Len(place_coord) <= Len(place_list)
        /\ Len(place_list) - Len(place_coord) = Len(Diagnostics)

\* C3 amended: at the end of the run the coordinate list is not longer than
\* the place list, and the shortfall is the number of diagnostics plus the
\* number of place names beyond the first 75, which are never geocoded.
ShortfallIsFailuresAndCut ==
    ResolverFinished =>
        /\ Len(place_coord) <= Len(place_list)
        /\ Len(place_list) - Len(place_coord)
               = Len(Diagnostics) + (Len(place_list) - Min(Len(place_list), PlaceLimit))

\* a run with a failure and a place list cut at 75
ShortfallWitness ==
    /\ pc = "done"
    /\ Len(Diagnostics) > 0
    /\ Len(place_coord) > 0
    /\ Len(place_list) > PlaceLimit

\* the loops of the tree pipeline
InTreePipeline == pc \in {"sentences", "get_placenames", "resolve_moby", "done_moby"}

\* the coordinate list of the pipeline that runs
Collected == IF InTreePipeline THEN allcoordinates ELSE place_coord

Succeeded(call) == call.answer \in Locations

Failed(call) == call.answer \notin Locations

Successes == SelectSeq(calls, Succeeded)

Failures == SelectSeq(calls, Failed)

RunFinished == pc \in {"done", "done_moby"}

\* C4: with every geocode call returning or raising, each resolver loop
\* reaches its end; a failed call (no match, or any geocoder error) is
\* followed by the next place name, and no failure reaches the caller.
ResolverNeverAborts ==
    /\ <>RunFinished
    /\ [](pc # "raised")
    /\ [][(Len(calls') = Len(calls) + 1 /\ Failed(calls'[Len(calls')]))
              => (k' = k + 1 /\ pc' = pc /\ pc \in {"resolve", "resolve_moby"})]_vars

\* a finished run in which a geocoder error and a missing match were both
\* followed by a later successful call
ResolverNeverAbortsWitness ==
    /\ RunFinished
    /\ \E a, b, c \in 1..Len(calls) :
           /\ a < b /\ b < c
           /\ calls[a].answer = GeocoderError
           /\ calls[b].answer = NoneResult
           /\ Succeeded(calls[c])

\* C5: the pair collected for a resolved name is (longitude, latitude) of
\* the geocoder's answer, unchanged in value and sign; with latitudes in
\* [-90, 90] and longitudes in [-180, 180] the first component is in
\* [-180, 180] and the second in [-90, 90] (units of 1e-4 degree).
CoordinateOrder ==
    \A m \in 1..Len(Collected) :
        /\ m <= Len(Successes)
        /\ Collected[m][1] = Successes[m].answer.longitude
        /\ Collected[m][2] = Successes[m].answer.latitude
        /\ -1800000 <= Collected[m][1] /\ Collected[m][1] <= 1800000
        /\ -900000 <= Collected[m][2] /\ Collected[m][2] <= 900000

\* the tree pipeline has collected a point east of 90 degrees and south of
\* the equator
CoordinateOrderWitness ==
    /\ pc = "done_moby"
    /\ \E m \in 1..Len(allcoordinates) : allcoordinates[m] = <<1512093, -338688>>
    /\ \E m \in 1..Len(calls) : Succeeded(calls[m]) /\ calls[m].answer.latitude = -338688

MaximalRuns(tree) ==
    {r \in (1..Len(tree)) \X (1..Len(tree)) :
        /\ r[1] <= r[2]
        /\ \A m \in r[1]..r[2] : Matches(tree[m])
        /\ r[1] = 1 \/ ~Matches(tree[r[1] - 1])
        /\ r[2] = Len(tree) \/ ~Matches(tree[r[2] + 1])}

RECURSIVE LeafTokens(_, _, _)
\* the leaf tokens of the child nodes a..b, in order
LeafTokens(tree, a, b) ==
    IF b < a THEN <<>> ELSE LeafTokens(tree, a, b - 1) \o Tokens(tree[b])

\* get_placenames has returned for the tree sentences[sent_ix]
Returned == pc = "sentences" /\ sent_ix > 0

\* C8 as stated: each string get_placenames returns is the single-space join
\* of the leaf tokens of exactly one maximal contiguous run of GPE /
\* ORGANIZATION child nodes.
ReturnsMaximalRuns ==
    Returned =>
        \A m \in 1..Len(chunks) :
            \E r \in MaximalRuns(sentences[sent_ix]) :
                chunks[m] = Join(LeafTokens(sentences[sent_ix], r[1], r[2]))

\* no non-matching node follows the first matching node
NoCloser(tree) ==
    ~ \E a, b \in 1..Len(tree) : a < b /\ Matches(tree[a]) /\ ~Matches(tree[b])

\* C9: the value get_placenames returns is the output list as it stood just
\* after the last non-matching node: a run still open at the end adds
\* nothing; the value is empty if no non-matching node follows the first
\* matching node.
TrailingRunDropped ==
    Returned =>
        /\ chunks = closed_at
        /\ NoCloser(sentences[sent_ix]) => chunks = <<>>

\* New, a non-matching node, York: "New" is returned, the open run York is not
TrailingRunDroppedWitness ==
    /\ Returned
    /\ Len(sentences[sent_ix]) = 3
    /\ chunks = << <<"New">> >>
    /\ current_chunk = << <<"York">> >>

\* a non-matching node is consumed while a run is open
ClosingStep ==
    /\ pc = "get_placenames"
    /\ node_ix' = node_ix + 1
    /\ ~Matches(parsed_tree[node_ix + 1])
    /\ current_chunk # <<>>

Present(text, list) == \E m \in 1..Len(list) : list[m] = text

\* C10: when a non-matching node closes a run, the joined string is appended
\* only if it is not yet in the output, and the buffer is then reset (a string
\* already present is not appended); so the output of one call never holds a
\* string twice and only grows at its end.
TreeLocalDedup ==
    /\ [](\A a, b \in 1..Len(continuous_chunk) :
              a # b => continuous_chunk[a] # continuous_chunk[b])
    /\ [][ClosingStep =>
              IF Present(Join(current_chunk), continuous_chunk)
              THEN continuous_chunk' = continuous_chunk
              ELSE /\ continuous_chunk' = Append(continuous_chunk, Join(current_chunk))
                   /\ current_chunk' = <<>>]_vars
    /\ [][(pc = "get_placenames" /\ pc' = "get_placenames") =>
              /\ Len(continuous_chunk') >= Len(continuous_chunk)
              /\ SubSeq(continuous_chunk', 1, Len(continuous_chunk)) = continuous_chunk]_vars

\* "New" is closed a second time in the same tree and is not appended again
TreeLocalDedupWitness ==
    /\ pc = "get_placenames"
    /\ node_ix = 4
    /\ Matches(parsed_tree[3])
    /\ ~Matches(parsed_tree[4])
    /\ continuous_chunk = << <<"New">> >>
    /\ Join(Tokens(parsed_tree[3])) = <<"New">>

\* the 'Could not find' diagnostics among printed lines
DiagnosticsOf(out) == SelectSeq(out, LAMBDA line : line[1] = "Could not find: ")

Occurrences(seq, x) == Cardinality({m \in 1..Len(seq) : seq[m] = x})

\* the same elements, each as often
SameBag(a, b) ==
    /\ Len(a) = Len(b)
    /\ \A m \in 1..Len(a) : Occurrences(a, a[m]) = Occurrences(b, a[m])

BothPassesDone == pass = 2 /\ pc = "done"

\* C11 as stated: two orderings of the same rows give the same multiset of
\* coordinates and the same multiset of diagnostics.
OrderIrrelevant ==
    BothPassesDone =>
        /\ SameBag(place_coord, prev.place_coord)
        /\ SameBag(DiagnosticsOf(stdout), DiagnosticsOf(prev.stdout))

\* C11 amended: two orderings of the same rows give the same multiset of
\* coordinates and the same multiset of diagnostics when the rows hold at most
\* 75 LOCATION rows (with more, the ordering decides which 75 names are
\* geocoded).
OrderIrrelevantUpTo75 ==
    (BothPassesDone /\ Len(place_list) <= PlaceLimit) =>
        /\ SameBag(place_coord, prev.place_coord)
        /\ SameBag(DiagnosticsOf(stdout), DiagnosticsOf(prev.stdout))

\* two different orderings with a resolved and an unresolved name
OrderIrrelevantWitness ==
    /\ BothPassesDone
    /\ Len(place_list) = 3
    /\ place_list # prev.place_list
    /\ place_coord # prev.place_coord
    /\ Len(place_coord) = 2
    /\ Len(DiagnosticsOf(stdout)) = 1

Refiltered == pass = 2 /\ pc = "resolve"

\* C12: filtering the rows that survived the filter yields the same sequence
\* of place names again (same content, order and length), every survivor
\* survives again, and the sequence is the survivors' names in their order.
FilterIdempotent ==
    Refiltered =>
        /\ place_list = prev.place_list
        /\ kept = ent_df
        /\ place_list = NamesOf(ent_df)

\* a second pass over two survivors with different names
FilterIdempotentWitness ==
    /\ Refiltered
    /\ Len(place_list) = 2
    /\ place_list[1] # place_list[2]
    /\ Len(ent_df) = 2

\* C13 as stated: an error raised in a resolver iteration after the geocode
\* call has returned a result reaches the caller and ends the run; it is not
\* reported as 'Could not find' and skipped, so a diagnostic is only ever
\* printed for a call whose lookup failed.
OnlyLookupFailuresSwallowed ==
    /\ faults # <<>> => pc = "raised"
    /\ Len(Diagnostics) <= Len(Failures)

\* the row has both fields
Complete(r) == {"entity", "type"} \subseteq DOMAIN r /\ r.type # NaN

\* C14 as stated: a row lacking 'entity' or 'type' stops the filter loop with an error
\* at that row, whatever its type: no row lacking a field is ever passed
\* over, nothing is put in the place list for it, and after the error no
\* 'Found' line is printed and no later cell runs.
MissingFieldFatal ==
    /\ \A m \in 1..i : Complete(ent_df[m])
    /\ Len(place_list) <= i
    /\ FilterFinished => \A m \in 1..Len(ent_df) : Complete(ent_df[m])
    /\ pc = "raised" =>
           /\ i < Len(ent_df)
           /\ ~Complete(ent_df[i + 1])
           /\ stdout = <<>>
           /\ ~ENABLED NextCsv
    /\ (pc = "filter" /\ i < Len(ent_df) /\ ~Complete(ent_df[i + 1])) =>
           ~ENABLED (FilterStep /\ pc' # "raised")


\* the list the running resolver loop iterates over
Iterated == IF InTreePipeline THEN moby_places ELSE PlaceSlice

LoopFinished == pc \in {"plot", "done", "done_moby"}

\* C15: in every resolver loop the m-th geocode call is made for the m-th
\* name of the iterated list; calls are made one at a time, each completed
\* (collected or reported) within the step that makes it; at the end of the
\* loop every name of the list has received exactly one call, so a failed
\* call is never repeated and a name is queried as often as it occurs.
OneCallPerName ==
    /\ [](Len(calls) = k /\ Len(calls) <= Len(Iterated))
    /\ [](\A m \in 1..Len(calls) : calls[m].query = Iterated[m])
    /\ [](LoopFinished => Len(calls) = Len(Iterated))
    /\ [](Len(calls) = Len(Collected) + Len(Diagnostics))
    /\ [][calls' # calls =>
              /\ Len(calls') = Len(calls) + 1
              /\ SubSeq(calls', 1, Len(calls)) = calls
              /\ Len(Collected') + Len(Diagnostics') = Len(Collected) + Len(Diagnostics) + 1]_vars

\* a finished loop over a list that names a place twice, the first call for
\* it having failed
OneCallPerNameWitness ==
    /\ LoopFinished
    /\ Len(calls) = 3
    /\ calls[1].query = calls[3].query
    /\ calls[1].query # calls[2].query
    /\ Failed(calls[1])
    /\ Failed(calls[3])

\* C16: the CSV pipeline makes geocode calls for the first min(n, 75) names
\* of a place list of length n, in list order, and for no other; at every
\* point the coordinates and the diagnostics together number at most
\* min(n, 75), and the loop ends after exactly min(n, 75) calls.
OnlyFirst75Geocoded ==
    LET n == Len(place_list)
    IN  /\ Len(calls) <= Min(n, PlaceLimit)
        /\ calls = [m \in 1..Len(calls) |-> [query |-> place_list[m], answer |-> api[place_list[m]]]]
        /\ Len(place_coord) + Len(Diagnostics) <= Min(n, PlaceLimit)
        /\ pc \in {"plot", "done"} => Len(calls) = Min(n, PlaceLimit)

\* a finished run over 76 places, the 76th of which differs from the 75th:
\* 75 calls were made
OnlyFirst75GeocodedWitness ==
    /\ pc = "done"
    /\ Len(place_list) = PlaceLimit + 1
    /\ place_list[PlaceLimit + 1] # place_list[PlaceLimit]
    /\ Len(calls) = PlaceLimit
    /\ Len(place_coord) + Len(Diagnostics) = PlaceLimit

RECURSIVE Flatten(_)
\* the concatenation of a sequence of lists
Flatten(lists) ==
    IF Len(lists) = 0 THEN <<>>
    ELSE Flatten(SubSeq(lists, 1, Len(lists) - 1)) \o lists[Len(lists)]

RECURSIVE Scan(_, _)
\* get_placenames(tree) after n nodes, called on its own: the output and the
\* run buffer, both empty at the start
Scan(tree, n) ==
    IF n = 0 THEN [continuous_chunk |-> <<>>, current_chunk |-> <<>>]
    ELSE LET before == Scan(tree, n - 1)
             node == tree[n]
             named_entity == Join(before.current_chunk)
         IN  IF Matches(node)
             THEN [before EXCEPT !.current_chunk = Append(@, Join(Tokens(node)))]
             ELSE IF before.current_chunk # <<>> /\ NotIn(named_entity, before.continuous_chunk)
             THEN [continuous_chunk |-> Append(before.continuous_chunk, named_entity),
                   current_chunk |-> <<>>]
             ELSE before

\* C17: the cumulative list is the concatenation, in sentence order, of what
\* get_placenames returned for each sentence's tree; each call starts from an
\* empty output and an empty run buffer, so its result is that of a call on
\* the tree alone, whatever the earlier sentences held.
AccumulatesPerSentence ==
    /\ moby_places = Flatten(returned)
    /\ InTreePipeline => Len(returned) = sent_ix
    /\ \A m \in 1..Len(returned) :
           returned[m] = Scan(sentences[m], Len(sentences[m])).continuous_chunk
    /\ pc = "get_placenames" =>
           /\ continuous_chunk = Scan(parsed_tree, node_ix).continuous_chunk
           /\ current_chunk = Scan(parsed_tree, node_ix).current_chunk

\* the same entity string closed in two sentences is in the list twice
AccumulatesPerSentenceWitness ==
    /\ pc = "done_moby"
    /\ Len(sentences) = 2
    /\ returned = << << <<"New">> >>, << <<"New">> >> >>
    /\ moby_places = << <<"New">>, <<"New">> >>

====
